---------------------------- MODULE Spec2Model ----------------------------
(***************************************************************************)
(* Model of the score-aggregation and ranking-cache synchronisation code   *)
(* of the real-time leaderboard (core/signals.py, core/redis_utils.py,     *)
(* core/views.py, core/models.py).                                         *)
(*                                                                         *)
(* A request thread that accepts a score inserts a ScoreSubmission row and *)
(* then runs the post_save receiver update_leaderboard_on_submission on    *)
(* the same thread.  The receiver touches shared state three times: the    *)
(* aggregate query over the ledger, the UPDATE of CustomUser.total_score   *)
(* and the ZADD on the Redis sorted set.  Each of the three is one action, *)
(* so that handlers on different threads interleave exactly where the code *)
(* lets them.  The thread-local guard and the try/finally are local to the *)
(* thread and are folded into the action that enters or leaves the         *)
(* receiver.                                                               *)
(*                                                                         *)
(* The INSERT is taken as committed when post_save runs (Django's          *)
(* autocommit), and every score the sorted set holds is one that fitted    *)
(* total_score, so Redis keeps it exactly as a double and int(score)       *)
(* gives it back unchanged.  The variables named h_... are history: they   *)
(* record how calls went and are read only by the properties.              *)
(***************************************************************************)
EXTENDS Integers, Sequences, FiniteSets, TLC

\* ------------------------------------------------------------- bounds
NumUsers   == 2      \* CustomUser rows, primary keys 1..NumUsers
NumThreads == 2      \* request threads of the server
MaxScore   == 2      \* submitted scores are 1..MaxScore
MaxSubs    == 3      \* rows the ledger may grow to

NumMembers == 3      \* users the ranking cache is exercised with on its own
MaxTotal   == 2      \* totals 1..MaxTotal are upserted when the cache is exercised on its own

Users   == 1..NumUsers
Threads == 1..NumThreads

VARIABLES
    ledger,                  \* ScoreSubmission table: sequence of rows, in insertion order
    total_score,             \* CustomUser.total_score, by user primary key
    zset,                    \* the Redis sorted set LEADERBOARD_KEY: member -> score
    redis_conn,              \* module attribute redis_conn: "Redis" or "None"
    redisUp,                 \* whether the Redis server can be reached right now
    pc,                      \* per thread: where it is inside the receiver
    player,                  \* per thread: instance.player of the running receiver
    new_total_score,         \* per thread: the receiver's local new_total_score
    processing_leaderboard,  \* per thread: _thread_local.processing_leaderboard
    h_nth,                   \* history, per thread: the player's row count when the receiver started
    h_overlap,               \* history, per thread: another receiver for the same player ran meanwhile
    h_last,                  \* history, per user: how the receiver that exited last went
    h_prev,                  \* history, per user: the outcome of the receiver that exited before it
    h_serial,                \* history, per user: no receiver of the user overlapped another or raised
    h_raced,                 \* history, per user: a same-user race left total_score short of the ledger
    h_failed,                \* history: some store operation has failed, or Redis was down at import
    h_parallel,              \* history: receivers of two different users were in flight at once
    user_rows,               \* CustomUser table: the primary keys that have a row
    q,                       \* the last call of get_top_users or of the leaderboard view, with its answer
    rq,                      \* a call of get_user_rank_and_score: where it is, what it has read, its answer
    h_window,                \* history: the (rank, score) pairs the queried member had while rq ran
    h_order,                 \* history: the members, in the order in which each reached its present score
    h_nested                 \* history, per thread: the receiver was entered again inside the running call

vars == << ledger, total_score, zset, redis_conn, redisUp, pc, player,
           new_total_score, processing_leaderboard,
           h_nth, h_overlap, h_last, h_prev, h_serial, h_raced, h_failed,
           h_parallel, user_rows, q, rq, h_window, h_order, h_nested >>

\* What the receiver and the submission flow never touch.
qvars == << user_rows, q, rq, h_window, h_order >>

\* ------------------------------------------------------------ helpers

\* str(player.id): the decimal digits of a primary key, most significant first.
RECURSIVE Str(_)
Str(n) == IF n < 10 THEN << n >> ELSE Append(Str(n \div 10), n % 10)

\* Sum('score') over ScoreSubmission.objects.filter(player=p), for a player
\* with at least one row.
RECURSIVE SumRows(_, _)
SumRows(rows, p) ==
    IF rows = << >> THEN 0
    ELSE (IF Head(rows).player = p THEN Head(rows).score ELSE 0) + SumRows(Tail(rows), p)

CountRows(rows, p) == Cardinality({ i \in 1..Len(rows) : rows[i].player = p })

\* The aggregate's total is None exactly when no row matches the filter.
AggregateIsNone(rows, p) == CountRows(rows, p) = 0

\* Mutant: the total is taken from the newest row alone (instance.score)
\* instead of the sum over the ledger.
NewTotalScore_NewestRow(rows, p) ==
    LET mine == { i \in 1..Len(rows) : rows[i].player = p } IN
    IF mine = {} THEN 0
    ELSE rows[CHOOSE i \in mine : \A j \in mine : j <= i].score

\* new_total_score = score_aggregation['total'] if it is not None else 0
NewTotalScore(rows, p) ==
    IF AggregateIsNone(rows, p) THEN 0 ELSE SumRows(rows, p)

\* Mutant: ZINCRBY, the score is added to the stored one.
ZAdd_Incr(z, m, s) ==
    [ x \in (DOMAIN z) \cup {m} |->
        IF x = m THEN (IF m \in DOMAIN z THEN z[m] + s ELSE s) ELSE z[x] ]

\* Mutant: ZADD NX, an existing member keeps its score.
ZAdd_NX(z, m, s) ==
    [ x \in (DOMAIN z) \cup {m} |->
        IF x = m /\ m \notin DOMAIN z THEN s ELSE z[x] ]

\* ZADD key {member: score}: insert the member or replace its score.
ZAdd(z, m, s) == [ x \in (DOMAIN z) \cup {m} |-> IF x = m THEN s ELSE z[x] ]

EmptyZSet == [ x \in {} |-> 0 ]

\* Redis compares the members of equal score as byte strings; the digits of a
\* decimal string compare as their values do.
RECURSIVE LexLess(_, _)
LexLess(a, b) ==
    IF b = << >> THEN FALSE
    ELSE IF a = << >> THEN TRUE
    ELSE IF Head(a) # Head(b) THEN Head(a) < Head(b)
    ELSE LexLess(Tail(a), Tail(b))

\* x stands before m in the sorted set read from the highest score down.
ZAhead(z, x, m) == z[x] > z[m] \/ (z[x] = z[m] /\ LexLess(m, x))

\* Mutant: ZRANK, the place counted from the lowest score up.
ZRevRank_Ascending(z, m) == Cardinality({ x \in DOMAIN z : ZAhead(z, m, x) })

\* ZREVRANK of a member of the set: its 0-based place from the top.
ZRevRank(z, m) == Cardinality({ x \in DOMAIN z : ZAhead(z, x, m) })

\* ZREVRANGE key start stop WITHSCORES: negative indexes count from the end,
\* the range is clipped to the set, and an empty range yields nothing.
ZRevRange(z, start, stop) ==
    LET n  == Cardinality(DOMAIN z)
        a0 == IF start < 0 THEN n + start ELSE start
        b0 == IF stop < 0 THEN n + stop ELSE stop
        a  == IF a0 < 0 THEN 0 ELSE a0
        b  == IF b0 >= n THEN n - 1 ELSE b0
    IN  IF a > b \/ a >= n THEN << >>
        ELSE [ i \in 1..(b - a + 1) |->
                 LET m == CHOOSE x \in DOMAIN z : ZRevRank(z, x) = a + i - 1
                 IN  << m, z[m] >> ]

\* What a call of a query method hands its caller: a value, or an exception.
Returns(v) == [ raised |-> FALSE, value |-> v ]
Raises     == [ raised |-> TRUE, value |-> << >> ]

\* 'rank': None
NoRank == 0

\* Mutant: the range ends at index count, one entry too many.
GetTopUsersOn_EndAtCount(conn, up, z, count) ==
    LET end_index == count IN
    IF conn = "None" THEN Returns(<< >>)
    ELSE IF ~up THEN Raises
    ELSE LET top_scores_data == ZRevRange(z, 0, end_index) IN
         Returns([ i \in 1..Len(top_scores_data) |->
                     [ rank |-> i,
                       user_id |-> top_scores_data[i][1],
                       score |-> top_scores_data[i][2] ] ])

\* LeaderboardManager.get_top_users(count) for a connection object conn, a
\* server that answers or not, and a sorted set z.
GetTopUsersOn(conn, up, z, count) ==
    LET end_index == count - 1 IN
    IF conn = "None" THEN Returns(<< >>)
    ELSE IF ~up THEN Raises
    ELSE LET top_scores_data == ZRevRange(z, 0, end_index) IN
         Returns([ i \in 1..Len(top_scores_data) |->
                     [ rank |-> i,
                       user_id |-> top_scores_data[i][1],
                       score |-> top_scores_data[i][2] ] ])

\* LeaderboardManager.get_user_rank_and_score(user_id), both reads taken in
\* one state of the sorted set.
GetUserRankAndScoreOn(conn, up, z, user_id) ==
    IF conn = "None" THEN Returns([ rank |-> NoRank, score |-> 0 ])
    ELSE IF ~up THEN Raises
    ELSE IF user_id \in DOMAIN z
         THEN Returns([ rank |-> ZRevRank(z, user_id) + 1, score |-> z[user_id] ])
         ELSE Returns([ rank |-> NoRank, score |-> 0 ])

GetTopUsers(count) == GetTopUsersOn(redis_conn, redisUp, zset, count)

GetUserRankAndScore(user_id) == GetUserRankAndScoreOn(redis_conn, redisUp, zset, user_id)

\* RealTimeLeaderboardView.get asks for the top 100.
TopCount == 100


\* Mutant: no validation, any posted score is accepted.
ValidateScore_Any(s) == TRUE

\* validate_score: a score <= 0 is rejected before any row is written.
ValidateScore(s) == s > 0

\* The values a client may post as a score.
PostedScores == (0 - 1)..MaxScore

NoPlayer == 0
NoCall   == [ res |-> "none", overlap |-> FALSE, total |-> 0, n |-> 0, thread |-> 0 ]

\* No answer of get_top_users or of the view is at hand.
NoQuery == [ op |-> "none", arg |-> 0, up |-> FALSE, res |-> Returns(<< >>) ]

\* get_user_rank_and_score is not running and no answer of it is at hand.
NoRankQuery == [ pc |-> "idle", user_id |-> << >>, rank_index |-> 0,
                 done |-> FALSE, result |-> Returns([ rank |-> NoRank, score |-> 0 ]) ]

\* request.user of a request without credentials (is_authenticated is False).
Anonymous == 0

\* The display attributes of the user with primary key id.
Username(id)  == << "user", id >>
FirstName(id) == << "first", id >>

\* details.get('username', 'Unknown User') and details.get('first_name', '')
\* for a member without a row.
UnknownUser == << "Unknown User" >>
EmptyName   == << >>

\* user_details_map.get(user_id_str): the row whose str(id) is the member.
HasDetails(rows, m) == \E id \in rows : Str(id) = m
DetailsId(rows, m)  == CHOOSE id \in rows : Str(id) = m

\* Mutant: details['username'] in place of details.get('username', ...): a
\* member without a row raises KeyError.
MergeEntry_NoDefault(rows, entry) ==
    IF HasDetails(rows, entry.user_id)
    THEN Returns([ rank |-> entry.rank, user_id |-> entry.user_id, score |-> entry.score,
                   username |-> Username(DetailsId(rows, entry.user_id)),
                   first_name |-> FirstName(DetailsId(rows, entry.user_id)) ])
    ELSE Raises

\* views.py lines 95-106: one merged entry of the leaderboard list.
MergeEntry(rows, entry) ==
    Returns([ rank |-> entry.rank, user_id |-> entry.user_id, score |-> entry.score,
              username |-> IF HasDetails(rows, entry.user_id)
                           THEN Username(DetailsId(rows, entry.user_id)) ELSE UnknownUser,
              first_name |-> IF HasDetails(rows, entry.user_id)
                             THEN FirstName(DetailsId(rows, entry.user_id)) ELSE EmptyName ])

\* 'current_user_rank': None
NullEntry == [ is_null |-> TRUE, rank |-> NoRank, score |-> 0,
               username |-> EmptyName, first_name |-> EmptyName ]

\* views.py lines 112-119: the requester's entry.  The dict that
\* get_user_rank_and_score returns has two keys whatever it found, so
\* "if user_rank_data:" holds and the names are always attached.
RequesterEntry(conn, up, z, requester) ==
    IF requester = Anonymous THEN Returns(NullEntry)
    ELSE LET user_rank_data == GetUserRankAndScoreOn(conn, up, z, Str(requester)) IN
         IF user_rank_data.raised THEN Raises
         ELSE Returns([ is_null |-> FALSE,
                        rank |-> user_rank_data.value.rank,
                        score |-> user_rank_data.value.score,
                        username |-> Username(requester),
                        first_name |-> FirstName(requester) ])

\* RealTimeLeaderboardView.get, its reads taken in one state of the stores:
\* the response data, or the exception that leaves the view.
LeaderboardViewOn(conn, up, z, rows, requester) ==
    LET top_scores_data == GetTopUsersOn(conn, up, z, TopCount) IN
    IF top_scores_data.raised THEN Raises
    ELSE LET n      == Len(top_scores_data.value)
             merged == [ i \in 1..n |-> MergeEntry(rows, top_scores_data.value[i]) ]
             me     == RequesterEntry(conn, up, z, requester)
         IN  IF (\E i \in 1..n : merged[i].raised) \/ me.raised THEN Raises
             ELSE Returns([ global_leaderboard |-> [ i \in 1..n |-> merged[i].value ],
                            current_user_rank |-> me.value ])

LeaderboardView(requester) ==
    LeaderboardViewOn(redis_conn, redisUp, zset, user_rows, requester)

\* How a call of the receiver that ended with outcome res left its caller: the
\* try has a finally and no except, so whatever a step raises leaves the receiver.
Ended(res) == IF res \in {"ok", "no_cache"} THEN "returned" ELSE "raised"

InFlight(u) == { t \in Threads : pc[t] # "idle" /\ player[t] = u }

\* ---------------------------------------------------------------- Init
\* redis_conn is bound once, at import: the Redis client when ping() answered,
\* None when it raised ConnectionError.  Nothing rebinds it afterwards.
Init ==
    /\ ledger = << >>
    /\ total_score = [ u \in Users |-> 0 ]
    /\ zset = EmptyZSet
    /\ redisUp \in BOOLEAN
    /\ redis_conn = IF redisUp THEN "Redis" ELSE "None"
    /\ pc = [ t \in Threads |-> "idle" ]
    /\ player = [ t \in Threads |-> NoPlayer ]
    /\ new_total_score = [ t \in Threads |-> 0 ]
    /\ processing_leaderboard = [ t \in Threads |-> FALSE ]
    /\ h_nth = [ t \in Threads |-> 0 ]
    /\ h_overlap = [ t \in Threads |-> FALSE ]
    /\ h_last = [ u \in Users |-> NoCall ]
    /\ h_prev = [ u \in Users |-> "none" ]
    /\ h_serial = [ u \in Users |-> TRUE ]
    /\ h_raced = [ u \in Users |-> FALSE ]
    /\ h_failed = ~redisUp
    /\ h_parallel = FALSE
    /\ user_rows = Users
    /\ q = NoQuery
    /\ rq = NoRankQuery
    /\ h_window = {}
    /\ h_order = << >>
    /\ h_nested = [ t \in Threads |-> FALSE ]

\* ------------------------------------------------------------- actions

\* Mutant: the guard is deleted at the end of the try body, not in a finally.
ReleaseGuard_NoFinally(t, res) ==
    IF res \in {"ok", "no_cache"}
    THEN [ processing_leaderboard EXCEPT ![t] = FALSE ]
    ELSE processing_leaderboard

\* finally: if hasattr(_thread_local, 'processing_leaderboard'): del ...
\* It runs on every way out of the try, whatever res the body ended with.
ReleaseGuard(t, res) == [ processing_leaderboard EXCEPT ![t] = FALSE ]

\* The receiver leaves the try block on thread t with outcome res.
Exit(t, res) ==
    LET u == player[t] IN
    /\ pc' = [ pc EXCEPT ![t] = "idle" ]
    /\ player' = [ player EXCEPT ![t] = NoPlayer ]
    /\ new_total_score' = [ new_total_score EXCEPT ![t] = 0 ]
    /\ processing_leaderboard' = ReleaseGuard(t, res)
    /\ h_nth' = [ h_nth EXCEPT ![t] = 0 ]
    /\ h_overlap' = [ h_overlap EXCEPT ![t] = FALSE ]
    /\ h_nested' = [ h_nested EXCEPT ![t] = FALSE ]
    /\ h_prev' = [ h_prev EXCEPT ![u] = h_last[u].res ]
    /\ h_last' = [ h_last EXCEPT ![u] =
                     [ res |-> res, overlap |-> h_overlap[t],
                       total |-> new_total_score[t], n |-> h_nth[t], thread |-> t ] ]
    /\ h_serial' = [ h_serial EXCEPT ![u] =
                       @ /\ ~h_overlap[t] /\ Ended(res) = "returned" ]
    /\ h_failed' = (h_failed \/ Ended(res) = "raised")
    /\ h_raced' = [ h_raced EXCEPT ![u] =
                      @ \/ ( /\ InFlight(u) = {t}
                             /\ ~h_failed /\ Ended(res) = "returned"
                             /\ total_score[u] < SumRows(ledger, u) ) ]

\* Mutant: the guard is tested inside the try, so the early return runs the
\* finally and deletes the flag of the call in progress.
EnterReceiver_CheckInsideTry(t, u, rows) ==
    IF processing_leaderboard[t]
    THEN /\ processing_leaderboard' = [ processing_leaderboard EXCEPT ![t] = FALSE ]
         /\ UNCHANGED << pc, player, h_nth, h_overlap, h_parallel >>
    ELSE /\ pc' = [ pc EXCEPT ![t] = "aggregate" ]
         /\ player' = [ player EXCEPT ![t] = u ]
         /\ processing_leaderboard' = [ processing_leaderboard EXCEPT ![t] = TRUE ]
         /\ h_nth' = [ h_nth EXCEPT ![t] = CountRows(rows, u) ]
         /\ h_overlap' = [ x \in Threads |->
                             IF x = t THEN InFlight(u) # {}
                             ELSE h_overlap[x] \/ (x \in InFlight(u)) ]
         /\ h_parallel' = (h_parallel \/ \E x \in Threads : pc[x] # "idle" /\ player[x] # u)

\* The receiver's entry, lines 20-32, for a row just created for player u:
\* with the guard set on this thread it returns at once, otherwise it sets the
\* guard and goes on to the aggregate.
EnterReceiver(t, u, rows) ==
    IF processing_leaderboard[t]
    THEN UNCHANGED << pc, player, processing_leaderboard, h_nth, h_overlap, h_parallel >>
    ELSE /\ pc' = [ pc EXCEPT ![t] = "aggregate" ]
         /\ player' = [ player EXCEPT ![t] = u ]
         /\ processing_leaderboard' = [ processing_leaderboard EXCEPT ![t] = TRUE ]
         /\ h_nth' = [ h_nth EXCEPT ![t] = CountRows(rows, u) ]
         /\ h_overlap' = [ x \in Threads |->
                             IF x = t THEN InFlight(u) # {}
                             ELSE h_overlap[x] \/ (x \in InFlight(u)) ]
         /\ h_parallel' = (h_parallel \/ \E x \in Threads : pc[x] # "idle" /\ player[x] # u)

\* ScoreSubmissionCreateView: validate, INSERT the row (autocommit), then
\* post_save runs the receiver on the same thread.
SubmitScore(t, u, s) ==
    /\ pc[t] = "idle"
    /\ Len(ledger) < MaxSubs
    /\ IF ~ValidateScore(s)
       THEN UNCHANGED vars
       ELSE /\ ledger' = Append(ledger, [ player |-> u, score |-> s ])
            /\ EnterReceiver(t, u, ledger')
            /\ UNCHANGED << total_score, zset, redis_conn, redisUp, new_total_score,
                            h_last, h_prev, h_serial, h_raced, h_failed >>
    /\ UNCHANGED << qvars, h_nested >>

\* Mutant: an incremental add, the stored total plus the newest score, in place
\* of the recomputation from the ledger.
Aggregate_Incremental(t) ==
    /\ pc[t] = "aggregate"
    /\ new_total_score' =
           [ new_total_score EXCEPT ![t] =
               total_score[player[t]] + NewTotalScore_NewestRow(ledger, player[t]) ]
    /\ pc' = [ pc EXCEPT ![t] = "update" ]
    /\ UNCHANGED << ledger, total_score, zset, redis_conn, redisUp, player,
                    processing_leaderboard, h_nth, h_overlap, h_last, h_prev,
                    h_serial, h_raced, h_failed, h_parallel >>
    /\ UNCHANGED << qvars, h_nested >>

\* Line 39-40: the aggregate query answers.
Aggregate(t) ==
    /\ pc[t] = "aggregate"
    /\ new_total_score' = [ new_total_score EXCEPT ![t] = NewTotalScore(ledger, player[t]) ]
    /\ pc' = [ pc EXCEPT ![t] = "update" ]
    /\ UNCHANGED << ledger, total_score, zset, redis_conn, redisUp, player,
                    processing_leaderboard, h_nth, h_overlap, h_last, h_prev,
                    h_serial, h_raced, h_failed, h_parallel >>
    /\ UNCHANGED << qvars, h_nested >>

\* Line 39: the aggregate query raises a database error.
AggregateFails(t) ==
    /\ pc[t] = "aggregate"
    /\ Exit(t, "raised_sum")
    /\ UNCHANGED << ledger, total_score, zset, redis_conn, redisUp, h_parallel >>
    /\ UNCHANGED qvars

\* Mutant: the UPDATE without its filter(pk=...) writes every row.
UpdateRow_NoFilter(ts, pk, v) == [ x \in DOMAIN ts |-> v ]

\* CustomUser.objects.filter(pk=pk).update(total_score=v)
UpdateRow(ts, pk, v) == [ ts EXCEPT ![pk] = v ]

\* Line 46: the targeted UPDATE is applied.
UpdateTotal(t) ==
    /\ pc[t] = "update"
    /\ total_score' = UpdateRow(total_score, player[t], new_total_score[t])
    /\ pc' = [ pc EXCEPT ![t] = "zadd" ]
    /\ UNCHANGED << ledger, zset, redis_conn, redisUp, player, new_total_score,
                    processing_leaderboard, h_nth, h_overlap, h_last, h_prev,
                    h_serial, h_raced, h_failed, h_parallel >>
    /\ UNCHANGED << qvars, h_nested >>

\* Mutant: the upsert is issued before the UPDATE, so it has been applied when
\* the UPDATE raises.
UpdateTotalFails_UpsertFirst(t) ==
    /\ pc[t] = "update"
    /\ zset' = ZAdd(zset, Str(player[t]), new_total_score[t])
    /\ Exit(t, "raised_update")
    /\ UNCHANGED << ledger, total_score, redis_conn, redisUp, h_parallel >>
    /\ UNCHANGED qvars

\* Line 46: the UPDATE raises a database error.
UpdateTotalFails(t) ==
    /\ pc[t] = "update"
    /\ Exit(t, "raised_update")
    /\ UNCHANGED << ledger, total_score, zset, redis_conn, redisUp, h_parallel >>
    /\ UNCHANGED qvars

\* LeaderboardManager.update_user_score as the receiver sees it: without a
\* connection object it does nothing and returns; with one, zadd is applied
\* when the server answers and raises ConnectionError when it does not.
UpsertOutcome ==
    IF redis_conn = "None" THEN "no_cache"
    ELSE IF redisUp THEN "ok" ELSE "raised_zadd"

\* Lines 49-57: the upsert, then the end of the try and its finally.
UpdateUserScore(t) ==
    /\ pc[t] = "zadd"
    /\ zset' = IF UpsertOutcome = "ok"
               THEN ZAdd(zset, Str(player[t]), new_total_score[t])
               ELSE zset
    /\ Exit(t, UpsertOutcome)
    /\ UNCHANGED << ledger, total_score, redis_conn, redisUp, h_parallel >>
    /\ UNCHANGED qvars

\* The environment: the Redis server becomes unreachable, or reachable again.
\* The sorted set itself survives the outage.
RedisGoesDown ==
    /\ redisUp
    /\ redisUp' = FALSE
    /\ UNCHANGED << ledger, total_score, zset, redis_conn, pc, player,
                    new_total_score, processing_leaderboard, h_nth, h_overlap,
                    h_last, h_prev, h_serial, h_raced, h_failed, h_parallel >>
    /\ UNCHANGED << qvars, h_nested >>

RedisComesUp ==
    /\ ~redisUp
    /\ redisUp' = TRUE
    /\ UNCHANGED << ledger, total_score, zset, redis_conn, pc, player,
                    new_total_score, processing_leaderboard, h_nth, h_overlap,
                    h_last, h_prev, h_serial, h_raced, h_failed, h_parallel >>
    /\ UNCHANGED << qvars, h_nested >>

\* Lines 39-50 run in one piece for player p, from the ledger rows, the
\* total_score column ts and the sorted set z: the aggregate, the UPDATE and the
\* upsert.  What it yields: the total it computed and the two stores after it.
Recompute(rows, ts, z, p) ==
    LET v == NewTotalScore(rows, p) IN
    [ total |-> v,
      ts    |-> UpdateRow(ts, p, v),
      z     |-> IF UpsertOutcome = "ok" THEN ZAdd(z, Str(p), v) ELSE z ]

Next ==
    \/ \E t \in Threads, u \in Users, s \in PostedScores : SubmitScore(t, u, s)
    \/ \E t \in Threads : Aggregate(t)
    \/ \E t \in Threads : AggregateFails(t)
    \/ \E t \in Threads : UpdateTotal(t)
    \/ \E t \in Threads : UpdateTotalFails(t)
    \/ \E t \in Threads : UpdateUserScore(t)
    \/ RedisGoesDown
    \/ RedisComesUp

Spec == Init /\ [][Next]_vars

\* The receiver is called again, for a created row of player u, on a thread
\* that is inside a call of it (a post_save delivered while the first call
\* runs).  Nothing in the repository makes such a call; it is what the guard is
\* there for.
NestedCall(t, u) ==
    /\ pc[t] # "idle"
    /\ EnterReceiver(t, u, ledger)
    /\ h_nested' = [ h_nested EXCEPT ![t] = TRUE ]
    /\ UNCHANGED << ledger, total_score, zset, redis_conn, redisUp, new_total_score,
                    h_last, h_prev, h_serial, h_raced, h_failed >>
    /\ UNCHANGED qvars

NextReentrant ==
    \/ Next
    \/ \E t \in Threads, u \in Users : NestedCall(t, u)

SpecReentrant == Init /\ [][NextReentrant]_vars

\* ------------------------------------------- the cache and its queries
\* The ranking cache driven directly: upserts as update_user_score applies
\* them, users removed from the attribute store, and the three queries.  The
\* receiver's variables stay as Init sets them.

CacheUsers  == 1..NumMembers
CacheTotals == 1..MaxTotal
Counts      == (0 - 2)..(NumMembers + 1)

\* The receiver's part of the state.
recvars == << ledger, total_score, pc, player, new_total_score, processing_leaderboard,
              h_nth, h_overlap, h_last, h_prev, h_serial, h_raced, h_failed,
              h_parallel, h_nested >>

InitCache ==
    /\ ledger = << >>
    /\ total_score = [ u \in Users |-> 0 ]
    /\ zset = EmptyZSet
    /\ redisUp \in BOOLEAN
    /\ redis_conn = IF redisUp THEN "Redis" ELSE "None"
    /\ pc = [ t \in Threads |-> "idle" ]
    /\ player = [ t \in Threads |-> NoPlayer ]
    /\ new_total_score = [ t \in Threads |-> 0 ]
    /\ processing_leaderboard = [ t \in Threads |-> FALSE ]
    /\ h_nth = [ t \in Threads |-> 0 ]
    /\ h_overlap = [ t \in Threads |-> FALSE ]
    /\ h_last = [ u \in Users |-> NoCall ]
    /\ h_prev = [ u \in Users |-> "none" ]
    /\ h_serial = [ u \in Users |-> TRUE ]
    /\ h_raced = [ u \in Users |-> FALSE ]
    /\ h_failed = ~redisUp
    /\ h_parallel = FALSE
    /\ user_rows = CacheUsers
    /\ q = NoQuery
    /\ rq = NoRankQuery
    /\ h_window = {}
    /\ h_order = << >>
    /\ h_nested = [ t \in Threads |-> FALSE ]

\* The sequence seq without the element m.
Without(seq, m) == SelectSeq(seq, LAMBDA x : x # m)

\* The members in the order in which they reached the score they hold now.
Arrive(order, z, m, s) ==
    IF m \in DOMAIN z /\ z[m] = s THEN order ELSE Append(Without(order, m), m)

\* The score of the member the running rank query asks about, 0 when it has
\* none, if its place in z is the one the query read; nothing otherwise.
ScoresAtRank(z, m, rank_index) ==
    IF m \in DOMAIN z /\ ZRevRank(z, m) = rank_index THEN { z[m] } ELSE {}

\* update_user_score(str(u), s) called with the total s.  An answer of a
\* finished query is dropped: it described the cache before this call.
CallUpdateUserScore(u, s) ==
    /\ zset' = IF UpsertOutcome = "ok" THEN ZAdd(zset, Str(u), s) ELSE zset
    /\ h_order' = IF UpsertOutcome = "ok" THEN Arrive(h_order, zset, Str(u), s) ELSE h_order
    /\ q' = NoQuery
    /\ IF rq.pc = "zscore"
       THEN /\ rq' = rq
            /\ h_window' = h_window \cup ScoresAtRank(zset', rq.user_id, rq.rank_index)
       ELSE /\ rq' = NoRankQuery
            /\ h_window' = {}
    /\ UNCHANGED << redis_conn, redisUp, user_rows >>
    /\ UNCHANGED recvars

\* The row of user u is deleted from the attribute store; nothing removes
\* the member from the sorted set.
DeleteUser(u) ==
    /\ u \in user_rows
    /\ user_rows' = user_rows \ {u}
    /\ q' = NoQuery
    /\ UNCHANGED << zset, redis_conn, redisUp, rq, h_window, h_order >>
    /\ UNCHANGED recvars

\* get_top_users(count) is called and answers.
CallGetTopUsers(count) ==
    /\ rq.pc = "idle"
    /\ q' = [ op |-> "top", arg |-> count, up |-> redisUp, res |-> GetTopUsers(count) ]
    /\ rq' = NoRankQuery
    /\ h_window' = {}
    /\ UNCHANGED << zset, redis_conn, redisUp, user_rows, h_order >>
    /\ UNCHANGED recvars

\* GET on the leaderboard by requester: a user with a row, or nobody.
CallLeaderboardView(requester) ==
    /\ rq.pc = "idle"
    /\ requester \in user_rows \cup {Anonymous}
    /\ q' = [ op |-> "view", arg |-> requester, up |-> redisUp,
              res |-> LeaderboardView(requester) ]
    /\ rq' = NoRankQuery
    /\ h_window' = {}
    /\ UNCHANGED << zset, redis_conn, redisUp, user_rows, h_order >>
    /\ UNCHANGED recvars

\* get_user_rank_and_score(str(u)), lines 89-92: ZREVRANK is read.  Without a
\* connection object, or for a user who is no member, the call ends here.
RankRead(u) ==
    /\ rq.pc = "idle"
    /\ IF redis_conn = "None" \/ (redisUp /\ Str(u) \notin DOMAIN zset)
       THEN /\ rq' = [ pc |-> "idle", user_id |-> Str(u), rank_index |-> 0, done |-> TRUE,
                       result |-> Returns([ rank |-> NoRank, score |-> 0 ]) ]
            /\ h_window' = {}
       ELSE IF ~redisUp
       THEN /\ rq' = [ pc |-> "idle", user_id |-> Str(u), rank_index |-> 0, done |-> TRUE,
                       result |-> Raises ]
            /\ h_window' = {}
       ELSE /\ rq' = [ pc |-> "zscore", user_id |-> Str(u),
                       rank_index |-> ZRevRank(zset, Str(u)), done |-> FALSE,
                       result |-> Returns([ rank |-> NoRank, score |-> 0 ]) ]
            /\ h_window' = { zset[Str(u)] }
    /\ q' = NoQuery
    /\ UNCHANGED << zset, redis_conn, redisUp, user_rows, h_order >>
    /\ UNCHANGED recvars

\* Lines 94-102: ZSCORE is read and the pair is returned.
ScoreRead ==
    /\ rq.pc = "zscore"
    /\ rq' = [ rq EXCEPT !.pc = "idle", !.done = TRUE,
                 !.result = IF ~redisUp THEN Raises
                            ELSE Returns([ rank |-> rq.rank_index + 1,
                                           score |-> IF rq.user_id \in DOMAIN zset
                                                     THEN zset[rq.user_id] ELSE 0 ]) ]
    /\ UNCHANGED << zset, redis_conn, redisUp, user_rows, q, h_window, h_order >>
    /\ UNCHANGED recvars

NextCache ==
    \/ \E u \in CacheUsers, s \in CacheTotals : CallUpdateUserScore(u, s)
    \/ \E u \in CacheUsers : DeleteUser(u)
    \/ \E count \in Counts : CallGetTopUsers(count)
    \/ \E requester \in CacheUsers \cup {Anonymous} : CallLeaderboardView(requester)
    \/ \E u \in CacheUsers : RankRead(u)
    \/ ScoreRead
    \/ RedisGoesDown
    \/ RedisComesUp

SpecCache == InitCache /\ [][NextCache]_vars

\* ------------------------------------------------------------- claims

Idle(u)       == InFlight(u) = {}
AllIdle       == \A t \in Threads : pc[t] = "idle"
HasEntry(u)   == Str(u) \in DOMAIN zset
CacheIs(u, v) == HasEntry(u) /\ zset[Str(u)] = v
LedgerSum(u)  == SumRows(ledger, u)

\* The sum of the scores of the first n ledger rows of player p.
RECURSIVE SumFirst(_, _, _)
SumFirst(rows, p, n) ==
    IF rows = << >> \/ n = 0 THEN 0
    ELSE IF Head(rows).player = p
         THEN Head(rows).score + SumFirst(Tail(rows), p, n - 1)
         ELSE SumFirst(Tail(rows), p, n)

\* The receiver that exited last for u ran from start to end with no other
\* receiver of u in flight, and none is in flight now.
LastRanAlone(u) == Idle(u) /\ h_last[u].res # "none" /\ ~h_last[u].overlap

\* C1: sum invariant.  For a user whose submissions were all processed one at a
\* time with nothing raised, once the receiver has left for the user's N-th
\* submission, total_score is the sum of the user's first N ledger rows.
C1_SumInvariant ==
    \A u \in Users :
        (h_serial[u] /\ Idle(u) /\ h_last[u].n >= 1)
            => total_score[u] = SumFirst(ledger, u, h_last[u].n)

\* C1 witness: a user's second submission has been processed, serially, and the
\* total is the sum of the two scores 1 and 2.
C1_Witness ==
    \E u \in Users :
        /\ h_serial[u] /\ Idle(u) /\ h_last[u].n = 2
        /\ CountRows(ledger, u) = 2
        /\ total_score[u] = 3

\* C2 as stated: whenever the receiver has returned without an exception for a
\* submission of u, no other receiver of u having been in flight, total_score
\* and the cache score of u both equal the sum the receiver read.
C2_Original ==
    \A u \in Users :
        (LastRanAlone(u) /\ Ended(h_last[u].res) = "returned")
            => /\ total_score[u] = h_last[u].total
               /\ CacheIs(u, h_last[u].total)

\* C2 amended: the same, for a process whose redis_conn is a connection (not
\* None); and get_user_rank_and_score(u), when the server answers, reports
\* that score.
C2_ReturnedMeansSynced ==
    \A u \in Users :
        (LastRanAlone(u) /\ Ended(h_last[u].res) = "returned" /\ redis_conn = "Redis")
            => /\ total_score[u] = h_last[u].total
               /\ CacheIs(u, h_last[u].total)
               /\ redisUp => /\ ~GetUserRankAndScore(Str(u)).raised
                             /\ GetUserRankAndScore(Str(u)).value.score = h_last[u].total
                             /\ GetUserRankAndScore(Str(u)).value.rank >= 1

\* C2 witness: submissions 1 then 2 of one user, both processed; the total and
\* the score reported by get_user_rank_and_score are 3.
C2_Witness ==
    \E u \in Users :
        /\ LastRanAlone(u) /\ h_last[u].res = "ok" /\ h_prev[u] = "ok"
        /\ h_last[u].n = 2 /\ h_last[u].total = 3
        /\ total_score[u] = 3
        /\ redisUp /\ GetUserRankAndScore(Str(u)).value.score = 3

\* C3: eventual consistency of the cache.  Once no receiver is in flight (and,
\* to leave the tolerated store failures aside, none has failed), the cache
\* score of every user with a submission equals total_score, also after
\* receivers of one user interleaved.
C3_CacheEqualsTotalWhenQuiet ==
    (AllIdle /\ ~h_failed)
        => \A u \in Users : CountRows(ledger, u) >= 1 => CacheIs(u, total_score[u])

\* C4: the guard is released on every way out.  A thread outside the receiver
\* never holds the flag, and a submission accepted on a thread is never skipped
\* at the guard: the receiver goes on to the aggregate.
C4_GuardReleased ==
    /\ [](\A t \in Threads : pc[t] = "idle" => ~processing_leaderboard[t])
    /\ [][ \A t \in Threads, u \in Users, s \in PostedScores :
             (ValidateScore(s) /\ SubmitScore(t, u, s))
                 => (pc'[t] = "aggregate" /\ player'[t] = u) ]_vars

\* C4 witness: a call raised on a thread, and the next submission of the same
\* user on that thread has passed the aggregate and the update.
C4_Witness ==
    \E u \in Users :
        /\ h_last[u].thread \in Threads
        /\ Ended(h_last[u].res) = "raised"
        /\ pc[h_last[u].thread] = "zadd"
        /\ player[h_last[u].thread] = u
        /\ processing_leaderboard[h_last[u].thread]

\* The total_score update of a call that ended with res had succeeded.
TotalWasUpdated(res) == res \in {"ok", "no_cache", "raised_zadd"}

\* The upsert of a call that ended with res did not take effect.
UpsertHadNoEffect(res) == res \in {"no_cache", "raised_zadd"}

C6_RaceRepaired ==
    \A u \in Users :
        (h_raced[u] /\ LastRanAlone(u) /\ h_last[u].res = "ok")
            => /\ total_score[u] = LedgerSum(u)
               /\ CacheIs(u, LedgerSum(u))

\* C6 witness: two receivers of one user on different threads have both
\* returned with total_score missing a score and no store having failed; a
\* third submission, processed alone, has repaired total and cache.
C6_Witness ==
    \E u \in Users :
        /\ h_raced[u] /\ ~h_failed
        /\ LastRanAlone(u) /\ h_last[u].res = "ok"
        /\ h_last[u].n = 3
        /\ total_score[u] = LedgerSum(u)
        /\ CacheIs(u, LedgerSum(u))

\* C7: receivers of distinct users do not interfere.  When no user ever had two
\* receivers in flight at once and no store failed, then once all receivers
\* have returned every user's total_score and cache score are the user's own
\* ledger sum, and every row was seen by a receiver (none was skipped).
C7_DistinctUsersIndependent ==
    (AllIdle /\ ~h_failed /\ \A u \in Users : h_serial[u])
        => \A u \in Users :
              /\ total_score[u] = LedgerSum(u)
              /\ h_last[u].n = CountRows(ledger, u)
              /\ IF CountRows(ledger, u) = 0 THEN ~HasEntry(u)
                 ELSE CacheIs(u, LedgerSum(u))

\* C7 witness: receivers of two users were in flight at once on two threads,
\* all have returned, and both users have different, correct totals.
C7_Witness ==
    /\ AllIdle /\ ~h_failed /\ h_parallel
    /\ \A u \in Users : h_serial[u]
    /\ CacheIs(1, 1) /\ CacheIs(2, 3)
    /\ total_score[1] = 1 /\ total_score[2] = 3

\* C8: fail before propagate.  A step in which a receiver leaves from the
\* aggregate or from the UPDATE (either raised) leaves the sorted set as it
\* was, and the sorted set changes only by the upsert of a receiver whose
\* UPDATE has been applied.
C8_FailBeforePropagate ==
    [][ /\ \A t \in Threads :
             (pc[t] \in {"aggregate", "update"} /\ pc'[t] = "idle") => zset' = zset
        /\ zset' # zset =>
             \E t \in Threads :
                 /\ pc[t] = "zadd"
                 /\ total_score[player[t]] = total_score'[player[t]]
                 /\ zset' = ZAdd(zset, Str(player[t]), new_total_score[t]) ]_vars

\* C8 witness: the UPDATE of u's second submission raised; the cache still
\* holds the first total, below the ledger sum.
C8_Witness ==
    \E u \in Users :
        /\ h_prev[u] = "ok" /\ LastRanAlone(u) /\ h_last[u].res = "raised_update"
        /\ HasEntry(u) /\ zset[Str(u)] = total_score[u]
        /\ zset[Str(u)] < LedgerSum(u)

\* C9: a raising upsert is swallowed.  A call whose upsert raised, after the
\* total_score update, has returned normally to the submission flow.
C9_UpsertFailureSwallowed ==
    \A u \in Users :
        h_last[u].res = "raised_zadd" => Ended(h_last[u].res) = "returned"

\* The cache cannot be used: no connection object, or the server is away.
CacheUnavailable == redis_conn = "None" \/ ~redisUp

\* C10: with the cache unavailable, get_top_users and get_user_rank_and_score
\* end in an error the caller can tell from the answer for an empty
\* leaderboard and from the answer for a user that has no entry.
C10_UnavailableIsExplicit ==
    CacheUnavailable =>
        /\ GetTopUsers(TopCount).raised
        /\ GetTopUsers(TopCount) # GetTopUsersOn("Redis", TRUE, EmptyZSet, TopCount)
        /\ \A u \in Users :
              /\ GetUserRankAndScore(Str(u)).raised
              /\ GetUserRankAndScore(Str(u))
                   # GetUserRankAndScoreOn("Redis", TRUE, EmptyZSet, Str(u))

\* The recomputation run for u in the present state, and run once more on
\* what the first run left, the ledger being the same.
FirstRun(u)  == Recompute(ledger, total_score, zset, u)
SecondRun(u) == Recompute(ledger, FirstRun(u).ts, FirstRun(u).z, u)

\* C17: idempotent recomputation.  Run twice in a row for a user with no
\* ledger append in between, the recomputation yields the same total both
\* times, and total_score and the sorted set after the second run are what they
\* were after the first.
C17_RecomputeIdempotent ==
    \A u \in Users :
        /\ SecondRun(u).total = FirstRun(u).total
        /\ SecondRun(u).ts = FirstRun(u).ts
        /\ SecondRun(u).z = FirstRun(u).z

\* C17 witness: total_score and the cache entry of a user are both stale, so
\* the first run changes both, to the ledger sum; the second changes nothing.
C17_Witness ==
    \E u \in Users :
        /\ AllIdle /\ UpsertOutcome = "ok"
        /\ HasEntry(u) /\ zset[Str(u)] < LedgerSum(u)
        /\ total_score[u] < LedgerSum(u)
        /\ FirstRun(u).ts # total_score /\ FirstRun(u).z # zset
        /\ FirstRun(u).z[Str(u)] = LedgerSum(u)
        /\ SecondRun(u).z = FirstRun(u).z

\* C19: no over-counting.  In every reachable state, whatever the interleaving
\* and the store failures, total_score of every user and the user's cache
\* score, when there is one, lie between 0 and the sum of the user's ledger rows.
C19_NoOverCounting ==
    \A u \in Users :
        /\ 0 <= total_score[u] /\ total_score[u] <= LedgerSum(u)
        /\ HasEntry(u) => (0 <= zset[Str(u)] /\ zset[Str(u)] <= LedgerSum(u))

\* C19 witness: after store failures the cache score of a user is below
\* total_score, which is below the ledger sum, and all three are positive.
C19_Witness ==
    \E u \in Users :
        /\ AllIdle /\ h_failed
        /\ HasEntry(u) /\ 0 < zset[Str(u)]
        /\ zset[Str(u)] < total_score[u]
        /\ total_score[u] < LedgerSum(u)

\* C18: re-entrant calls are no-ops.  A call of the receiver on a thread that is
\* inside a call of it leaves the ledger, every total_score, the sorted set and
\* the outer call where they are and does not clear the guard, which is held
\* for as long as the outer call runs; and a submission on an idle thread
\* enters the receiver while a call is in progress on another thread.
C18_ReentrantCallIsNoOp ==
    /\ [](\A t \in Threads : pc[t] # "idle" => processing_leaderboard[t])
    /\ [][ \A t \in Threads, u \in Users :
             NestedCall(t, u)
                 => UNCHANGED << ledger, total_score, zset, processing_leaderboard,
                                 pc, player, new_total_score >> ]_vars
    /\ [][ \A t \in Threads, u \in Users, s \in PostedScores :
             ( /\ ValidateScore(s) /\ SubmitScore(t, u, s)
               /\ \E x \in Threads \ {t} : pc[x] # "idle" )
                 => pc'[t] = "aggregate" ]_vars

\* C18 witness: the receiver was called again on a thread inside the call that
\* is still running there; that call has gone on to the upsert with the guard
\* held, while another thread is inside a call of its own.
C18_Witness ==
    \E t \in Threads :
        /\ h_nested[t]
        /\ pc[t] = "zadd" /\ processing_leaderboard[t]
        /\ total_score[player[t]] = new_total_score[t]
        /\ \E x \in Threads \ {t} : pc[x] # "idle"

\* ------------------------------------------- claims about the queries

\* The answer of get_top_users at hand, an answer to count.
TopAnswered == q.op = "top" /\ ~q.res.raised
\* The response of the view at hand.
ViewAnswered == q.op = "view" /\ ~q.res.raised

Members == DOMAIN zset

\* C11: in every cache state, for all members A and B with scoreA > scoreB,
\* the rank get_user_rank_and_score gives A is smaller than the one it gives
\* B, and so are their ranks in an answer of get_top_users that has both.
C11_RankingConsistency ==
    \A a \in Members, b \in Members :
        zset[a] > zset[b] =>
            /\ redis_conn = "Redis" /\ redisUp =>
                  GetUserRankAndScore(a).value.rank < GetUserRankAndScore(b).value.rank
            /\ TopAnswered =>
                  \A i \in 1..Len(q.res.value), j \in 1..Len(q.res.value) :
                      q.res.value[i].user_id = a /\ q.res.value[j].user_id = b
                          => q.res.value[i].rank < q.res.value[j].rank

\* Three members, not all of one score, Redis answering, and get_top_users
\* has returned two of them with different scores.
C11_Witness ==
    /\ Cardinality(Members) = NumMembers
    /\ redisUp
    /\ TopAnswered
    /\ \E i \in 1..Len(q.res.value), j \in 1..Len(q.res.value) :
          q.res.value[i].score > q.res.value[j].score
    /\ \E a \in Members, b \in Members :
          zset[a] > zset[b] /\ GetUserRankAndScore(a).value.rank = 1

\* a stands before b in the sequence order.
Before(order, a, b) ==
    \E k \in 1..Len(order), l \in 1..Len(order) : k < l /\ order[k] = a /\ order[l] = b

\* C12: of two members with equal score, get_top_users ranks the one ahead
\* whose entry reached that score first, whatever their user ids are.
C12_TiesByArrival ==
    TopAnswered /\ q.arg >= 1 =>
        \A i \in 1..Len(q.res.value), j \in 1..Len(q.res.value) :
            i < j /\ q.res.value[i].score = q.res.value[j].score
                => Before(h_order, q.res.value[i].user_id, q.res.value[j].user_id)

\* The larger of two integers.
Max(a, b) == IF a > b THEN a ELSE b
\* The smaller of two integers.
Min(a, b) == IF a < b THEN a ELSE b

\* C13: for every integer count, get_top_users(count) returns at most count
\* entries and at most as many as there are members; for count <= 0 none.
C13_TopNBound ==
    TopAnswered =>
        /\ Len(q.res.value) <= Cardinality(Members)
        /\ Len(q.res.value) <= Max(q.arg, 0)

\* C14: for count >= 1 and n members, get_top_users(count) returns exactly
\* min(count, n) entries with the ranks 1..min(count, n), each a distinct
\* member with its stored score, in non-increasing score order, and no member
\* left out has a score strictly greater than a returned one.
C14_TopNExact ==
    TopAnswered /\ q.arg >= 1 =>
        LET top == q.res.value
            idx == 1..Len(top)
        IN  /\ Len(top) = Min(q.arg, Cardinality(Members))
            /\ \A i \in idx : /\ top[i].rank = i
                              /\ top[i].user_id \in Members
                              /\ top[i].score = zset[top[i].user_id]
            /\ \A i \in idx, j \in idx : i # j => top[i].user_id # top[j].user_id
            /\ \A i \in idx, j \in idx : i < j => top[i].score >= top[j].score
            /\ \A m \in Members :
                  (\A i \in idx : top[i].user_id # m)
                      => \A i \in idx : zset[m] <= top[i].score

\* get_top_users(2) has answered on three members of which one, with a
\* lower score than a returned one, is left out.
C14_Witness ==
    /\ TopAnswered
    /\ q.arg = 2
    /\ Cardinality(Members) = NumMembers
    /\ Len(q.res.value) = 2
    /\ \E m \in Members : zset[m] < q.res.value[2].score

\* C15: for a requester without a cache entry the response of the view
\* has a null current_user_rank, and its list is the one a request without a
\* requester gets.
C15_NoEntryRequesterIsNull ==
    ViewAnswered /\ q.arg # Anonymous /\ Str(q.arg) \notin Members =>
        /\ q.res.value.current_user_rank.is_null
        /\ q.res.value.global_leaderboard
             = LeaderboardViewOn(redis_conn, TRUE, zset, user_rows,
                                 Anonymous).value.global_leaderboard

\* C16: the list of the view has one entry per entry of get_top_users(100),
\* in the same order with the same rank, user id and score, at most 100 of
\* them; an entry whose user has no row carries the placeholder names, one
\* whose user has a row carries that user's names; and the view fails only
\* when the Redis server did not answer it.
C16_MergeKeepsRanking ==
    q.op = "view" =>
        /\ q.res.raised <=> (redis_conn = "Redis" /\ ~q.up)
        /\ ~q.res.raised =>
              LET top == GetTopUsersOn(redis_conn, TRUE, zset, TopCount).value
                  gl  == q.res.value.global_leaderboard
              IN  /\ Len(gl) = Len(top)
                  /\ Len(gl) <= TopCount
                  /\ \A i \in 1..Len(gl) :
                        /\ gl[i].rank = top[i].rank
                        /\ gl[i].user_id = top[i].user_id
                        /\ gl[i].score = top[i].score
                        /\ HasDetails(user_rows, gl[i].user_id)
                             => /\ gl[i].username = Username(DetailsId(user_rows, gl[i].user_id))
                                /\ gl[i].first_name = FirstName(DetailsId(user_rows, gl[i].user_id))
                        /\ ~HasDetails(user_rows, gl[i].user_id)
                             => /\ gl[i].username = UnknownUser
                                /\ gl[i].first_name = EmptyName

\* The view has answered with three ranked entries of which one belongs to a
\* deleted user and one to a user who still has a row.
C16_Witness ==
    /\ ViewAnswered
    /\ Len(q.res.value.global_leaderboard) = NumMembers
    /\ \E i \in 1..NumMembers, j \in 1..NumMembers :
          /\ q.res.value.global_leaderboard[i].username = UnknownUser
          /\ q.res.value.global_leaderboard[j].username # UnknownUser

\* C20: the (rank, score) pair get_user_rank_and_score returns for a member
\* is the rank and the score that member had together in one state of the
\* sorted set during the call.
C20_ConsistentSnapshot ==
    rq.done /\ ~rq.result.raised /\ rq.result.value.rank # NoRank
        => rq.result.value.score \in h_window

====
